---- MODULE Spec2Model ----
(***************************************************************************)
(* RRWebDBManager (src/src/components/RRWebRecorder.tsx, lines 359-758):   *)
(* the singleton that owns the IndexedDB database 'rrweb', queues events   *)
(* while the database is not ready and drains the queue once it is.        *)
(*                                                                         *)
(* The manager runs on the single JavaScript thread.  Every async method   *)
(* is a task that runs atomically from one await to the next; a step of    *)
(* the model is either a call from the page (initialize, saveEvent,        *)
(* clearDatabase) or an IndexedDB callback together with the continuation  *)
(* of the task that awaits it.                                             *)
(*                                                                         *)
(* Events are numbered 1, 2, 3, ... in the order they are passed to        *)
(* saveEvent, so the number of an event is its emission rank.  The value 0 *)
(* stands for an event recorded by an earlier page load.                   *)
(***************************************************************************)
EXTENDS Integers, Sequences, FiniteSets, TLC

\* ------------------------------------------------------------------ bounds
MaxEvents == 3      \* saveEvent calls in one behaviour
MaxInits == 2       \* initialize() calls in one behaviour
MaxClears == 1      \* clearDatabase() calls in one behaviour
MaxFailures == 2    \* IndexedDB requests that fail in one behaviour
maxQueueSize == 2   \* capacity of eventQueue (1000 in the code), scaled
MaxSessions == 1    \* session ids in the store of a query are 0..MaxSessions;
                    \* the tab storage loses its session id at most so often

Events == 1..MaxEvents
Inits == 1..MaxInits
Clears == 1..MaxClears

\* ------------------------------------------------------------------- state
VARIABLES
    \* RRWebDBManager fields
    isReady, isInitializing, db, eventQueue,
    \* tab-scoped storage: the item 'rrweb-session-id' (0 = absent), and the
    \* number of session ids generated so far
    sessionStorage, sessionGen,
    \* IndexedDB database 'rrweb'
    dbExists,       \* the database exists on disk
    records,        \* rows of the object store 'events', in key order
    keyGen,         \* next key of the autoIncrement key generator
    opened,         \* connections the manager has been handed by open
    closeReq,       \* connections on which close() has been called
    foreign,        \* a connection held outside the manager (another tab)
    connQueue,      \* pending deleteDatabase / open requests, in order
    txq,            \* readwrite transactions on 'events', in creation order
    \* tasks (one per call)
    initPc, toProcess, savePc, clearPc, emitted,
    \* history of what happened to each event and to each call
    evicted, discarded, destroyed, failures, direct, failedDirect,
    snapshot, emittedAtReady, drainFailed, deleteFailed,
    \* how many initialize() and saveEvent calls had been made when each
    \* clearDatabase() was called
    callsAtClear,
    \* the session id persisted in the tab storage when each event was passed
    \* to saveEvent (0 = none)
    sessionAtSave,
    \* the page around the manager
    instance,       \* RRWebDBManager.instance (0 = not yet constructed)
    handedOut,      \* what the calls of getInstance() returned, in order
    result,         \* outcome of the query or export called by the page
    alerts,         \* messages shown with alert(), in order
    downloads       \* files handed to the browser for download, in order

mgr == <<isReady, isInitializing, db, eventQueue>>
idb == <<dbExists, records, keyGen, opened, closeReq, foreign, connQueue, txq>>
tasks == <<initPc, toProcess, savePc, clearPc, emitted>>
hist == <<evicted, discarded, destroyed, failures, direct, failedDirect,
          snapshot, emittedAtReady, drainFailed, deleteFailed, callsAtClear,
          sessionAtSave>>
session == <<sessionStorage, sessionGen>>
page == <<instance, handedOut, result, alerts, downloads>>
vars == <<mgr, session, idb, tasks, hist, page>>

\* ----------------------------------------------------------------- helpers
Range(s) == {s[k] : k \in 1..Len(s)}

\* Array.prototype.slice(-n): the last n elements
SliceLast(s, n) == IF Len(s) <= n THEN s ELSE SubSeq(s, Len(s) - n + 1, Len(s))

\* the sequence <<lo, lo+1, ..., hi>>
Interval(lo, hi) == [k \in 1..(IF hi >= lo THEN hi - lo + 1 ELSE 0) |-> lo + k - 1]

InitOwner(i) == [t |-> "init", n |-> i]
ClearOwner(c) == [t |-> "clear", n |-> c]
SaveOwner(e) == [t |-> "save", n |-> e]

\* a connection is closed once close() was called on it and its transactions
\* have finished; until then it still counts as an open connection
LiveConns == {h \in opened : h \notin closeReq \/ \E k \in 1..Len(txq) : txq[k].conn = h}
HasLiveConn == LiveConns # {} \/ foreign

\* store.getAll(): the records of 'events' in ascending key order
StoreGetAll(recs) == SortSeq(recs, LAMBDA a, b : a.id < b.id)

StoreData == [k \in 1..Len(records) |-> records[k].data]
StoreEvents == Range(StoreData)
InFlight == {txq[k].ev : k \in 1..Len(txq)}
    \cup UNION {Range(toProcess[i]) : i \in Inits}

\* no query or export has been called
NoResult == [op |-> "none", arg |-> 0, status |-> "ok", value |-> <<>>]

\* ------------------------------------------------------------------- Init
Init ==
    /\ isReady = FALSE
    /\ isInitializing = FALSE
    /\ db = 0
    /\ eventQueue = <<>>
    /\ sessionStorage = 0
    /\ sessionGen = 0
    /\ \/ /\ dbExists = FALSE
          /\ records = <<>>
          /\ keyGen = 1
          /\ foreign = FALSE
       \/ /\ dbExists = TRUE
          /\ records = <<[id |-> 1, data |-> 0, sessionId |-> 0]>>
          /\ keyGen = 2
          /\ foreign \in BOOLEAN
    /\ opened = {}
    /\ closeReq = {}
    /\ connQueue = <<>>
    /\ txq = <<>>
    /\ initPc = [i \in Inits |-> "idle"]
    /\ toProcess = [i \in Inits |-> <<>>]
    /\ savePc = [e \in Events |-> "none"]
    /\ clearPc = [c \in Clears |-> "idle"]
    /\ emitted = 0
    /\ evicted = {}
    /\ discarded = {}
    /\ destroyed = {}
    /\ failures = 0
    /\ direct = {}
    /\ failedDirect = {}
    /\ snapshot = [i \in Inits |-> <<>>]
    /\ emittedAtReady = [i \in Inits |-> 0]
    /\ drainFailed = [i \in Inits |-> FALSE]
    /\ deleteFailed = [i \in Inits |-> FALSE]
    /\ callsAtClear = [c \in Clears |-> [inits |-> 0, events |-> 0]]
    /\ sessionAtSave = [e \in Events |-> 0]
    /\ instance = 1
    /\ handedOut = <<1>>
    /\ result = NoResult
    /\ alerts = <<>>
    /\ downloads = <<>>

\* ---------------------------------------------------------------- manager
\* a provider that generates an id at every call
getSessionIdAlwaysNew == sessionGen + 1

\* getSessionId(): the persisted id, generated and persisted on first use
getSessionId == IF sessionStorage = 0 THEN sessionGen + 1 ELSE sessionStorage

\* the session storage after a call of getSessionId()
SessionAfterGet ==
    /\ sessionStorage' = getSessionId
    /\ sessionGen' = IF sessionStorage = 0 THEN sessionGen + 1 ELSE sessionGen

\* a transaction whose record carries the session id that was current when
\* the event was passed to saveEvent
WriteTxIdAtSave(ev, h, owner) ==
    [ev |-> ev, conn |-> h, owner |-> owner, sessionId |-> sessionAtSave[ev]]

\* the readwrite transaction saveEventToDatabase creates on connection h
WriteTx(ev, h, owner) ==
    [ev |-> ev, conn |-> h, owner |-> owner, sessionId |-> getSessionId]

\* a saveEventToDatabase that creates its transaction late, after those that
\* later calls create
saveEventToDatabaseLate(q, ev, h, owner) == <<WriteTx(ev, h, owner)>> \o q

\* saveEventToDatabase, called synchronously by its caller: the transaction
\* is created at once, behind the transactions created before it
saveEventToDatabase(q, ev, h, owner) == Append(q, WriteTx(ev, h, owner))

\* a guard of initialize() that forgets the initialization in flight
AlreadyStartedReadyOnly == isReady

\* the guard of initialize(): nothing to do when Ready or Initializing
AlreadyStarted == isReady \/ isInitializing

\* a queue that rejects the newest event when it is full
EnqueueKeepOldest(q, e) ==
    IF Len(q) >= maxQueueSize THEN q ELSE Append(q, e)

\* the not-Ready branch of saveEvent: push, then keep the newest maxQueueSize
Enqueue(q, e) ==
    IF Len(Append(q, e)) > maxQueueSize
    THEN SliceLast(Append(q, e), maxQueueSize)
    ELSE Append(q, e)

\* the catch branches: push without a size check
Requeue(q, e) == Append(q, e)

\* what processEventQueue puts back on the queue when the write of Head(rest)
\* fails: the failed event only; the loop breaks and the rest of its local
\* copy is dropped
RequeueAfterFailure(q, rest) == Append(q, Head(rest))

\* db.close(); db = null
CloseDb == IF db # 0 THEN closeReq \cup {db} ELSE closeReq

DeleteRequest(owner) == [kind |-> "delete", owner |-> owner, blocked |-> FALSE]
OpenRequest(owner) == [kind |-> "open", owner |-> owner, blocked |-> FALSE]

\* initialize(): the i-th call
initialize(i) ==
    /\ initPc[i] = "idle"
    /\ \A j \in Inits : j < i => initPc[j] # "idle"
    /\ IF AlreadyStarted
       THEN /\ initPc' = [initPc EXCEPT ![i] = "returned"]
            /\ UNCHANGED <<mgr, idb>>
       ELSE /\ isInitializing' = TRUE
            /\ closeReq' = CloseDb
            /\ db' = 0
            /\ connQueue' = Append(connQueue, DeleteRequest(InitOwner(i)))
            /\ initPc' = [initPc EXCEPT ![i] = "awaitDelete"]
            /\ UNCHANGED <<isReady, eventQueue, dbExists, records, keyGen,
                           opened, foreign, txq>>
    /\ UNCHANGED <<session, toProcess, savePc, clearPc, emitted, hist>>
    /\ UNCHANGED page

\* clearDatabase(): the c-th call, up to its await of deleteDatabase()
clearDatabase(c) ==
    /\ clearPc[c] = "idle"
    /\ \A j \in Clears : j < c => clearPc[j] # "idle"
    /\ isReady' = FALSE
    /\ isInitializing' = FALSE
    /\ closeReq' = CloseDb
    /\ db' = 0
    /\ eventQueue' = <<>>
    /\ discarded' = discarded \cup Range(eventQueue)
    /\ connQueue' = Append(connQueue, DeleteRequest(ClearOwner(c)))
    /\ clearPc' = [clearPc EXCEPT ![c] = "awaitDelete"]
    /\ callsAtClear' = [callsAtClear EXCEPT ![c] =
           [inits |-> Cardinality({i \in Inits : initPc[i] # "idle"}),
            events |-> emitted]]
    /\ UNCHANGED <<session, dbExists, records, keyGen, opened, foreign, txq,
                   initPc, toProcess, savePc, emitted,
                   evicted, destroyed, failures, direct, failedDirect,
                   snapshot, emittedAtReady, drainFailed, deleteFailed,
                   sessionAtSave>>
    /\ UNCHANGED page

\* a guard of saveEvent that looks at the handle only
NotReadyDbOnly == db = 0

\* the guard of saveEvent: !this.isReady || !this.db
NotReady == ~isReady \/ db = 0

\* saveEvent(event): the next event of the capture library
saveEvent(e) ==
    /\ e = emitted + 1
    /\ e <= MaxEvents
    /\ emitted' = e
    /\ sessionAtSave' = [sessionAtSave EXCEPT ![e] = sessionStorage]
    /\ IF NotReady
       THEN /\ eventQueue' = Enqueue(eventQueue, e)
            /\ evicted' = evicted \cup
                   ((Range(eventQueue) \cup {e}) \ Range(Enqueue(eventQueue, e)))
            /\ savePc' = [savePc EXCEPT ![e] = "done"]
            /\ UNCHANGED <<txq, session, direct>>
       ELSE /\ txq' = saveEventToDatabase(txq, e, db, SaveOwner(e))
            /\ SessionAfterGet
            /\ savePc' = [savePc EXCEPT ![e] = "writing"]
            /\ direct' = direct \cup {e}
            /\ UNCHANGED <<eventQueue, evicted>>
    /\ UNCHANGED <<isReady, isInitializing, db, dbExists, records, keyGen,
                   opened, closeReq, foreign, connQueue, initPc, toProcess,
                   clearPc, discarded, destroyed, failures, failedDirect,
                   snapshot, emittedAtReady, drainFailed, deleteFailed,
                   callsAtClear>>
    /\ UNCHANGED page

\* a drain without try/catch: the error of the write rejects initialize()
DrainUncaught == "rejected"

\* the catch of processEventQueue swallows the error of the write, the loop
\* breaks and initialize() resolves
DrainCaught == "resolved"

\* processEventQueue from the point where `rest` is still to be written, q is
\* the queue, h the manager's db and tq the pending transactions
processEventQueue(i, rest, q, h, tq) ==
    IF rest = <<>>
    THEN /\ initPc' = [initPc EXCEPT ![i] = "resolved"]
         /\ toProcess' = [toProcess EXCEPT ![i] = <<>>]
         /\ eventQueue' = q
         /\ txq' = tq
         /\ UNCHANGED <<session, drainFailed>>
    ELSE IF h = 0
    THEN \* saveEventToDatabase rejects: 'Database not available'
         /\ initPc' = [initPc EXCEPT ![i] = DrainCaught]
         /\ toProcess' = [toProcess EXCEPT ![i] = <<>>]
         /\ eventQueue' = RequeueAfterFailure(q, rest)
         /\ txq' = tq
         /\ drainFailed' = [drainFailed EXCEPT ![i] = TRUE]
         /\ UNCHANGED session
    ELSE /\ initPc' = [initPc EXCEPT ![i] = "drain"]
         /\ toProcess' = [toProcess EXCEPT ![i] = rest]
         /\ eventQueue' = q
         /\ txq' = saveEventToDatabase(tq, Head(rest), h, InitOwner(i))
         /\ SessionAfterGet
         /\ UNCHANGED drainFailed

\* --------------------------------------------------------------- IndexedDB
\* a deleteDatabase() whose onblocked handler does not resolve the promise:
\* the task goes on waiting
ResumeAfterDeleteStall(owner, cq) ==
    IF cq # <<>> /\ cq[1].kind = "delete" /\ cq[1].blocked /\ cq[1].owner = owner
    THEN /\ connQueue' = cq
         /\ UNCHANGED <<initPc, clearPc>>
    ELSE IF owner.t = "init"
    THEN /\ connQueue' = Append(cq, OpenRequest(owner))
         /\ initPc' = [initPc EXCEPT ![owner.n] = "awaitOpen"]
         /\ UNCHANGED clearPc
    ELSE /\ connQueue' = cq
         /\ clearPc' = [clearPc EXCEPT ![owner.n] = "done"]
         /\ UNCHANGED initPc

\* the task that awaits deleteDatabase() goes on (onsuccess, onerror and
\* onblocked all resolve the promise): initialize calls openDatabase(),
\* clearDatabase returns
ResumeAfterDelete(owner, cq) ==
    IF owner.t = "init"
    THEN /\ connQueue' = Append(cq, OpenRequest(owner))
         /\ initPc' = [initPc EXCEPT ![owner.n] = "awaitOpen"]
         /\ UNCHANGED clearPc
    ELSE /\ connQueue' = cq
         /\ clearPc' = [clearPc EXCEPT ![owner.n] = "done"]
         /\ UNCHANGED initPc

\* deleteRequest.onblocked: connections are still open; the promise resolves,
\* the request stays pending until they are closed
DeleteBlocked ==
    /\ connQueue # <<>>
    /\ Head(connQueue).kind = "delete"
    /\ ~Head(connQueue).blocked
    /\ HasLiveConn
    /\ ResumeAfterDelete(Head(connQueue).owner,
                         [connQueue EXCEPT ![1].blocked = TRUE])
    /\ UNCHANGED <<mgr, session, dbExists, records, keyGen, opened, closeReq,
                   foreign, txq, toProcess, savePc, emitted, hist>>
    /\ UNCHANGED page

\* deleteRequest.onsuccess: the database is gone
DeleteSucceeds ==
    /\ connQueue # <<>>
    /\ Head(connQueue).kind = "delete"
    /\ ~HasLiveConn
    /\ dbExists' = FALSE
    /\ records' = <<>>
    /\ keyGen' = 1
    /\ destroyed' = destroyed \cup (StoreEvents \ {0})
    /\ IF Head(connQueue).blocked
       THEN /\ connQueue' = Tail(connQueue)
            /\ UNCHANGED <<initPc, clearPc>>
       ELSE ResumeAfterDelete(Head(connQueue).owner, Tail(connQueue))
    /\ UNCHANGED <<mgr, session, opened, closeReq, foreign, txq, toProcess,
                   savePc, emitted, evicted, discarded, failures, direct,
                   failedDirect, snapshot, emittedAtReady, drainFailed,
                   deleteFailed,
                   callsAtClear, sessionAtSave>>
    /\ UNCHANGED page

\* deleteRequest.onerror: the database is left as it was
DeleteFails ==
    /\ connQueue # <<>>
    /\ Head(connQueue).kind = "delete"
    /\ ~HasLiveConn
    /\ failures < MaxFailures
    /\ failures' = failures + 1
    /\ deleteFailed' = IF Head(connQueue).owner.t = "init"
                       THEN [deleteFailed EXCEPT ![Head(connQueue).owner.n] = TRUE]
                       ELSE deleteFailed
    /\ IF Head(connQueue).blocked
       THEN /\ connQueue' = Tail(connQueue)
            /\ UNCHANGED <<initPc, clearPc>>
       ELSE ResumeAfterDelete(Head(connQueue).owner, Tail(connQueue))
    /\ UNCHANGED <<mgr, session, dbExists, records, keyGen, opened, closeReq,
                   foreign, txq, toProcess, savePc, emitted, evicted,
                   discarded, destroyed, direct, failedDirect, snapshot,
                   emittedAtReady, drainFailed, callsAtClear, sessionAtSave>>
    /\ UNCHANGED page

\* an initialize() that sets isReady and leaves isInitializing as it is
InitializingAfterOpenKept == isInitializing

\* initialize() after the open: this.isInitializing = false
InitializingAfterOpen == FALSE

\* request.onsuccess of open (after onupgradeneeded when the database is
\* new), and initialize() from there: Ready, then the drain
OpenSucceeds ==
    /\ connQueue # <<>>
    /\ Head(connQueue).kind = "open"
    /\ LET i == Head(connQueue).owner.n
           h == Cardinality(opened) + 1
       IN /\ opened' = opened \cup {h}
          /\ IF dbExists
             THEN UNCHANGED <<dbExists, records, keyGen>>
             ELSE /\ dbExists' = TRUE
                  /\ records' = <<>>
                  /\ keyGen' = 1
          /\ connQueue' = Tail(connQueue)
          /\ db' = h
          /\ isReady' = TRUE
          /\ isInitializing' = InitializingAfterOpen
          /\ snapshot' = [snapshot EXCEPT ![i] = eventQueue]
          /\ emittedAtReady' = [emittedAtReady EXCEPT ![i] = emitted]
          /\ processEventQueue(i, eventQueue, <<>>, h, txq)
    /\ UNCHANGED <<closeReq, foreign, savePc, clearPc, emitted, evicted,
                   discarded, destroyed, failures, direct, failedDirect,
                   deleteFailed,
                   callsAtClear, sessionAtSave>>
    /\ UNCHANGED page

\* a catch of initialize() that leaves isInitializing as it is
CatchInitializingKept == isInitializing

\* the catch of initialize(): isInitializing = false (and isReady = false)
CatchInitializing == FALSE

\* a catch of initialize() that also discards the queued events
OpenFailsDropsQueue ==
    /\ connQueue # <<>>
    /\ Head(connQueue).kind = "open"
    /\ failures < MaxFailures
    /\ failures' = failures + 1
    /\ connQueue' = Tail(connQueue)
    /\ isInitializing' = CatchInitializing
    /\ isReady' = FALSE
    /\ eventQueue' = <<>>
    /\ initPc' = [initPc EXCEPT ![Head(connQueue).owner.n] = "rejected"]
    /\ UNCHANGED <<db, session, dbExists, records, keyGen, opened,
                   closeReq, foreign, txq, toProcess, savePc, clearPc, emitted,
                   evicted, discarded, destroyed, direct, failedDirect,
                   snapshot, emittedAtReady, drainFailed, deleteFailed,
                   callsAtClear, sessionAtSave>>
    /\ UNCHANGED page

\* the open request is rejected (request.onerror; onblocked and a missing
\* 'events' store reject the same promise), and the catch of initialize()
OpenFails ==
    /\ connQueue # <<>>
    /\ Head(connQueue).kind = "open"
    /\ failures < MaxFailures
    /\ failures' = failures + 1
    /\ connQueue' = Tail(connQueue)
    /\ isInitializing' = CatchInitializing
    /\ isReady' = FALSE
    /\ initPc' = [initPc EXCEPT ![Head(connQueue).owner.n] = "rejected"]
    /\ UNCHANGED <<db, eventQueue, session, dbExists, records, keyGen, opened,
                   closeReq, foreign, txq, toProcess, savePc, clearPc, emitted,
                   evicted, discarded, destroyed, direct, failedDirect,
                   snapshot, emittedAtReady, drainFailed, deleteFailed,
                   callsAtClear, sessionAtSave>>
    /\ UNCHANGED page

\* a store whose key generator is not used: every record gets the same key
NewRecordFixedKey(tx) == [id |-> 1, data |-> tx.ev, sessionId |-> tx.sessionId]

\* store.add on the store created with keyPath 'id', autoIncrement: the
\* record gets the next key of the key generator
NewRecord(tx) == [id |-> keyGen, data |-> tx.ev, sessionId |-> tx.sessionId]

\* request.onsuccess of store.add: the oldest transaction commits
WriteSucceeds ==
    /\ txq # <<>>
    /\ LET tx == Head(txq)
       IN /\ records' = Append(records, NewRecord(tx))
          /\ keyGen' = keyGen + 1
          /\ IF tx.owner.t = "save"
             THEN /\ savePc' = [savePc EXCEPT ![tx.owner.n] = "done"]
                  /\ txq' = Tail(txq)
                  /\ UNCHANGED <<eventQueue, session, initPc, toProcess,
                                 drainFailed>>
             ELSE /\ processEventQueue(tx.owner.n, Tail(toProcess[tx.owner.n]),
                                       eventQueue, db, Tail(txq))
                  /\ UNCHANGED savePc
    /\ UNCHANGED <<isReady, isInitializing, db, dbExists, opened, closeReq,
                   foreign, connQueue, clearPc, emitted, evicted, discarded,
                   destroyed, failures, direct, failedDirect, snapshot,
                   emittedAtReady, deleteFailed,
                   callsAtClear, sessionAtSave>>
    /\ UNCHANGED page

\* a saveEvent without its try/catch: the rejection of saveEventToDatabase
\* is the outcome of the call
SaveEventUncaught == "rejected"

\* the catch of saveEvent: the error is logged, the event is pushed on the
\* queue and the call completes normally
SaveEventCaught == "done"

\* request.onerror / transaction.onerror / transaction.onabort: the oldest
\* transaction fails and the catch of its caller runs
WriteFails ==
    /\ txq # <<>>
    /\ failures < MaxFailures
    /\ failures' = failures + 1
    /\ txq' = Tail(txq)
    /\ LET tx == Head(txq)
       IN IF tx.owner.t = "save"
          THEN /\ eventQueue' = Requeue(eventQueue, tx.ev)
               /\ savePc' = [savePc EXCEPT ![tx.owner.n] = SaveEventCaught]
               /\ failedDirect' = failedDirect \cup {tx.ev}
               /\ UNCHANGED <<initPc, toProcess, drainFailed>>
          ELSE /\ eventQueue' = RequeueAfterFailure(eventQueue, toProcess[tx.owner.n])
               /\ initPc' = [initPc EXCEPT ![tx.owner.n] = DrainCaught]
               /\ toProcess' = [toProcess EXCEPT ![tx.owner.n] = <<>>]
               /\ drainFailed' = [drainFailed EXCEPT ![tx.owner.n] = TRUE]
               /\ UNCHANGED <<savePc, failedDirect>>
    /\ UNCHANGED <<isReady, isInitializing, db, session, dbExists, records,
                   keyGen, opened, closeReq, foreign, connQueue, clearPc,
                   emitted, evicted, discarded, destroyed, direct, snapshot,
                   emittedAtReady, deleteFailed,
                   callsAtClear, sessionAtSave>>
    /\ UNCHANGED page

\* the connection held outside the manager is closed
ForeignClose ==
    /\ foreign
    /\ foreign' = FALSE
    /\ UNCHANGED <<mgr, session, dbExists, records, keyGen, opened, closeReq,
                   connQueue, txq, tasks, hist>>
    /\ UNCHANGED page

Next ==
    \/ \E i \in Inits : initialize(i)
    \/ \E c \in Clears : clearDatabase(c)
    \/ \E e \in Events : saveEvent(e)
    \/ DeleteBlocked
    \/ DeleteSucceeds
    \/ DeleteFails
    \/ OpenSucceeds
    \/ OpenFails
    \/ WriteSucceeds
    \/ WriteFails
    \/ ForeignClose

Spec == Init /\ [][Next]_vars

TypeOK ==
    /\ isReady \in BOOLEAN
    /\ isInitializing \in BOOLEAN
    /\ db \in 0..MaxInits
    /\ Range(eventQueue) \subseteq Events
    /\ Len(txq) <= MaxEvents

\* liveness: IndexedDB answers every request, and the page goes on calling
\* initialize() and saveEvent(); requests stop failing after MaxFailures
Fairness ==
    /\ WF_vars(DeleteBlocked)
    /\ WF_vars(DeleteSucceeds)
    /\ WF_vars(OpenSucceeds)
    /\ WF_vars(WriteSucceeds)
    /\ WF_vars(ForeignClose)
    /\ WF_vars(\E i \in Inits : initialize(i))
    /\ WF_vars(\E e \in Events : saveEvent(e))

FairSpec == Spec /\ Fairness

\* the item 'rrweb-session-id' is removed from the tab storage (the user or
\* another script clears it); the next getSessionId() generates a new id
StorageCleared ==
    /\ sessionStorage # 0
    /\ sessionGen <= MaxSessions
    /\ sessionStorage' = 0
    /\ UNCHANGED <<sessionGen, mgr, idb, tasks, hist, page>>

\* the manager in a tab whose storage may lose the session id, with an
\* IndexedDB whose delete and open requests do not fail
SessionNext ==
    \/ \E i \in Inits : initialize(i)
    \/ \E c \in Clears : clearDatabase(c)
    \/ \E e \in Events : saveEvent(e)
    \/ DeleteBlocked
    \/ DeleteSucceeds
    \/ OpenSucceeds
    \/ WriteSucceeds
    \/ WriteFails
    \/ ForeignClose
    \/ StorageCleared

SessionSpec == Init /\ [][SessionNext]_vars

\* ------------------------------------------------------ queries and exports
MaxRecords == 3     \* records in the store when a query is made
MaxGets == 2        \* getInstance() calls in one behaviour

\* session ids stand for the strings 'session-<time>-<random>'
SessionIds == 0..MaxSessions

\* events found in the store by a query; 12 has two digits in JSON
Payloads == {1, 12}

\* a guard of the queries that never refuses
DatabaseNotReadyNever == FALSE

\* the guard of getAllEvents, getEventsBySession and getAllSessions:
\* !this.db || !this.isReady, then throw new Error('Database not ready')
DatabaseNotReady == db = 0 \/ ~isReady

\* the index 'sessionId' of the store: one entry <<key, primary key>> per
\* record, sorted by key and then by primary key
IndexEntries(recs) ==
    SortSeq([k \in 1..Len(recs) |-> <<recs[k].sessionId, recs[k].id>>],
            LAMBDA a, b : a[1] < b[1] \/ (a[1] = b[1] /\ a[2] < b[2]))

RecordOf(recs, id) == CHOOSE r \in Range(recs) : r.id = id

\* an index whose entries of one key come newest first
IndexGetAllNewestFirst(recs, sid) ==
    LET hits == SelectSeq(IndexEntries(recs), LAMBDA en : en[1] = sid)
    IN [k \in 1..Len(hits) |-> RecordOf(recs, hits[Len(hits) + 1 - k][2])]

\* index.getAll(sessionId): the records of the entries with that key, in
\* index order
IndexGetAll(recs, sid) ==
    LET hits == SelectSeq(IndexEntries(recs), LAMBDA en : en[1] = sid)
    IN [k \in 1..Len(hits) |-> RecordOf(recs, hits[k][2])]

\* events.map(event => event.sessionId)
SessionIdsOf(recs) == [k \in 1..Len(recs) |-> recs[k].sessionId]

\* Array.prototype.indexOf for an element that occurs
IndexOf(s, x) ==
    CHOOSE k \in 1..Len(s) : s[k] = x /\ \A j \in 1..(k - 1) : s[j] # x

\* a filter that drops an id only when it repeats the one just before it
FirstOccurrencesAdjacent(s) ==
    LET pairs == [k \in 1..Len(s) |-> <<s[k], k>>]
        kept == SelectSeq(pairs, LAMBDA pr : pr[2] = 1 \/ s[pr[2] - 1] # pr[1])
    IN [k \in 1..Len(kept) |-> kept[k][1]]

\* .filter((sessionId, index, array) => array.indexOf(sessionId) === index);
\* the filter before it (a truthy string) keeps every session id the manager
\* writes
FirstOccurrences(s) ==
    LET pairs == [k \in 1..Len(s) |-> <<s[k], k>>]
        kept == SelectSeq(pairs, LAMBDA pr : IndexOf(s, pr[1]) = pr[2])
    IN [k \in 1..Len(kept) |-> kept[k][1]]

\* events.map(event => event.data): the captured events, metadata dropped
rrwebEvents(recs) == [k \in 1..Len(recs) |-> recs[k].data]

DigitChar == <<"0", "1", "2", "3", "4", "5", "6", "7", "8", "9">>

RECURSIVE Digits(_)
Digits(n) ==
    IF n < 10 THEN <<DigitChar[n + 1]>>
              ELSE Digits(n \div 10) \o <<DigitChar[(n % 10) + 1]>>

\* JSON.stringify(array, null, 2): the text of the array, as a sequence of
\* characters; every element starts on a line of its own
RECURSIVE StringifyFrom(_, _)
StringifyFrom(arr, k) ==
    IF k > Len(arr) THEN <<"\n", "]">>
    ELSE (IF k = 1 THEN <<"\n">> ELSE <<",", "\n">>)
             \o Digits(arr[k]) \o StringifyFrom(arr, k + 1)

JSONStringify(arr) ==
    IF arr = <<>> THEN <<"[", "]">> ELSE <<"[">> \o StringifyFrom(arr, 1)

DigitValue(c) == CHOOSE d \in 0..9 : DigitChar[d + 1] = c

\* JSON.parse of the text of an array of numbers: cur is the number being
\* read (-1 when none), out the elements read so far
RECURSIVE ParseFrom(_, _, _, _)
ParseFrom(text, k, cur, out) ==
    IF k > Len(text) THEN out
    ELSE IF text[k] \in {"[", "\n"} THEN ParseFrom(text, k + 1, cur, out)
    ELSE IF text[k] = "," THEN ParseFrom(text, k + 1, -1, Append(out, cur))
    ELSE IF text[k] = "]" THEN (IF cur = -1 THEN out ELSE Append(out, cur))
    ELSE ParseFrom(text, k + 1,
                   (IF cur = -1 THEN 0 ELSE cur) * 10 + DigitValue(text[k]), out)

JSONParse(text) == ParseFrom(text, 1, -1, <<>>)

\* the file exportSession and exportAllSessions hand to the browser
Artifact(sid, recs) == [session |-> sid, text |-> JSONStringify(rrwebEvents(recs))]

\* a grouping that puts every record in every group
SessionGroupAll(all, sid) == all

\* sessionGroups[sessionId]: the records of that session, in the order of
\* allEvents
SessionGroup(all, sid) == SelectSeq(all, LAMBDA r : r.sessionId = sid)

\* Object.keys(sessionGroups): the session ids in the order in which their
\* groups were created (the ids are not integer-like keys)
GroupKeys(all) == FirstOccurrences(SessionIdsOf(all))

\* an accessor that constructs a manager at every call
InstanceAlwaysNew(inst, n) == n + 1

\* getInstance(): construct the manager at the first call only
InstanceAfterGet(inst, n) == IF inst = 0 THEN n + 1 ELSE inst

Outcome(op, arg, status, value) ==
    [op |-> op, arg |-> arg, status |-> status, value |-> value]

\* what a read request answers: its result, or request.onerror
ReadAnswers == {"ok", "rejected"}

\* a transaction that clears the store, as a 'readwrite' one could
ClearingTransaction(recs) == <<>>

\* the store after db.transaction(['events'], 'readonly') with getAll()
ReadTransaction(recs) == recs

\* the store after a query or an export: they open their transaction only
\* when the database is ready
StoreAfterRead == IF DatabaseNotReady THEN records ELSE ReadTransaction(records)

\* what a query or an export leaves alone, the store content apart
ReadFrame == <<mgr, session, dbExists, keyGen, opened, closeReq, foreign,
               connQueue, txq, tasks, hist, instance, handedOut>>

\* a query: it throws when the database is not ready, else it resolves with
\* `value` or rejects with the error of the read request
Query(op, arg, value) ==
    /\ result = NoResult
    /\ records' = StoreAfterRead
    /\ \E answer \in ReadAnswers :
          result' = IF DatabaseNotReady
                    THEN Outcome(op, arg, "thrown", <<>>)
                    ELSE IF answer = "ok"
                    THEN Outcome(op, arg, "ok", value)
                    ELSE Outcome(op, arg, "rejected", <<>>)
    /\ UNCHANGED <<ReadFrame, alerts, downloads>>

getAllEvents == Query("getAllEvents", 0, StoreGetAll(records))

getEventsBySession(sid) ==
    Query("getEventsBySession", sid, IndexGetAll(records, sid))

getAllSessions ==
    Query("getAllSessions", 0, FirstOccurrences(SessionIdsOf(StoreGetAll(records))))

\* an export that goes on with an empty list of events
NothingToExportNever(events) == FALSE

\* events.length === 0: alert and return
NothingToExport(events) == events = <<>>

\* exportSession(sessionId): getEventsBySession, then one download, or an
\* alert when there is nothing to export or the query failed
ExportOf(sid) ==
    \E answer \in ReadAnswers :
        IF DatabaseNotReady \/ answer # "ok"
        THEN /\ alerts' = Append(alerts, "Failed to export session. Check console for details.")
             /\ UNCHANGED downloads
        ELSE IF NothingToExport(IndexGetAll(records, sid))
        THEN /\ alerts' = Append(alerts, "No events found for this session")
             /\ UNCHANGED downloads
        ELSE /\ downloads' = Append(downloads, Artifact(sid, IndexGetAll(records, sid)))
             /\ UNCHANGED alerts

exportSession(sid) ==
    /\ result = NoResult
    /\ ExportOf(sid)
    /\ result' = Outcome("exportSession", sid, "ok", <<>>)
    /\ records' = StoreAfterRead
    /\ UNCHANGED ReadFrame

\* exportAllSessions(): getAllEvents, then one download per group
exportAllSessions ==
    /\ result = NoResult
    /\ \E answer \in ReadAnswers :
          IF DatabaseNotReady \/ answer # "ok"
          THEN /\ alerts' = Append(alerts, "Failed to export sessions. Check console for details.")
               /\ UNCHANGED downloads
          ELSE IF NothingToExport(StoreGetAll(records))
          THEN /\ alerts' = Append(alerts, "No events found to export")
               /\ UNCHANGED downloads
          ELSE LET all == StoreGetAll(records)
                   keys == GroupKeys(all)
               IN /\ downloads' = downloads \o
                        [k \in 1..Len(keys) |-> Artifact(keys[k], SessionGroup(all, keys[k]))]
                  /\ UNCHANGED alerts
    /\ result' = Outcome("exportAllSessions", 0, "ok", <<>>)
    /\ records' = StoreAfterRead
    /\ UNCHANGED ReadFrame

\* window.exportRRWebSession(sessionId?): arg is <<>> for a call without
\* argument and <<sid>> for a call with one. Not Ready: an error on the
\* console. With an id: exportSession(id). Without: the list of sessions on
\* the console.
exportRRWebSession(arg) ==
    /\ result = NoResult
    /\ IF ~isReady
       THEN /\ result' = Outcome("exportRRWebSession", arg, "notReady", <<>>)
            /\ UNCHANGED <<records, alerts, downloads>>
       ELSE IF arg # <<>>
       THEN /\ ExportOf(arg[1])
            /\ records' = StoreAfterRead
            /\ result' = Outcome("exportRRWebSession", arg, "ok", <<>>)
       ELSE /\ \E answer \in ReadAnswers :
                  result' = IF DatabaseNotReady \/ answer # "ok"
                            THEN Outcome("exportRRWebSession", arg, "caught", <<>>)
                            ELSE Outcome("exportRRWebSession", arg, "listed",
                                         FirstOccurrences(SessionIdsOf(StoreGetAll(records))))
            /\ records' = StoreAfterRead
            /\ UNCHANGED <<alerts, downloads>>
    /\ UNCHANGED ReadFrame

\* RRWebDBManager.getInstance()
getInstance ==
    /\ Len(handedOut) < MaxGets
    /\ instance' = InstanceAfterGet(instance, Len(handedOut))
    /\ handedOut' = Append(handedOut, InstanceAfterGet(instance, Len(handedOut)))
    /\ UNCHANGED <<mgr, session, idb, tasks, hist, result, alerts, downloads>>

\* the states in which the page calls a query or an export: any store
\* content, and the manager not yet constructed, not Ready (with or without
\* a handle; without one an initialize() may be awaiting its destroy and an
\* event may be queued) or Ready
QueryInit ==
    /\ \E n \in 0..MaxRecords :
          \E sess \in [1..n -> SessionIds], pay \in [1..n -> Payloads] :
              records = [k \in 1..n |->
                            [id |-> k, data |-> pay[k], sessionId |-> sess[k]]]
    /\ keyGen = Len(records) + 1
    /\ \/ isReady = FALSE /\ db = 0 /\ instance \in {0, 1}
       \/ isReady = FALSE /\ db = 1 /\ instance = 1
       \/ isReady = TRUE /\ db = 1 /\ instance = 1
    /\ handedOut = IF instance = 0 THEN <<>> ELSE <<1>>
    /\ isInitializing \in (IF db = 0 /\ instance = 1 THEN BOOLEAN ELSE {FALSE})
    /\ eventQueue \in (IF db = 0 /\ instance = 1 THEN {<<>>, <<1>>} ELSE {<<>>})
    /\ sessionStorage \in (IF instance = 1 THEN SessionIds ELSE {0})
    /\ sessionGen = sessionStorage
    /\ dbExists = (db # 0 \/ records # <<>>)
    /\ foreign = FALSE
    /\ opened = IF db = 0 THEN {} ELSE {db}
    /\ closeReq = {}
    /\ connQueue = IF isInitializing THEN <<DeleteRequest(InitOwner(1))>> ELSE <<>>
    /\ txq = <<>>
    /\ initPc = [i \in Inits |-> IF i = 1 /\ isReady THEN "resolved"
                                 ELSE IF i = 1 /\ isInitializing THEN "awaitDelete"
                                 ELSE "idle"]
    /\ toProcess = [i \in Inits |-> <<>>]
    /\ savePc = [e \in Events |-> IF e \in Range(eventQueue) THEN "done" ELSE "none"]
    /\ clearPc = [c \in Clears |-> "idle"]
    /\ emitted = Len(eventQueue)
    /\ evicted = {}
    /\ discarded = {}
    /\ destroyed = {}
    /\ failures = 0
    /\ direct = {}
    /\ failedDirect = {}
    /\ snapshot = [i \in Inits |-> <<>>]
    /\ emittedAtReady = [i \in Inits |-> 0]
    /\ drainFailed = [i \in Inits |-> FALSE]
    /\ deleteFailed = [i \in Inits |-> FALSE]
    /\ callsAtClear = [c \in Clears |-> [inits |-> 0, events |-> 0]]
    /\ sessionAtSave = [e \in Events |-> 0]
    /\ result = NoResult
    /\ alerts = <<>>
    /\ downloads = <<>>

QueryNext ==
    \/ getAllEvents
    \/ \E sid \in SessionIds : getEventsBySession(sid)
    \/ getAllSessions
    \/ \E sid \in SessionIds : exportSession(sid)
    \/ exportAllSessions
    \/ \E arg \in {<<>>} \cup {<<sid>> : sid \in SessionIds} : exportRRWebSession(arg)
    \/ getInstance

QuerySpec == QueryInit /\ [][QueryNext]_vars

\* ------------------------------------------------------------- properties
\* the elements of s that are in S, in the order of s
Restrict(s, S) == SelectSeq(s, LAMBDA x : x \in S)

NoClear == \A c \in Clears : clearPc[c] = "idle"
ReachedReady(i) == initPc[i] \in {"drain", "resolved"}
NeverReady == \A i \in Inits : ~ReachedReady(i)
Accepted == 1..emitted

\* C1: without any clearDatabase() call, once an initialize() has reached
\* Ready and its drain has finished, no event that was queued when it became
\* Ready is lost: each is in the store or, when a write failed, still in the
\* queue, and those in the store are there in their original relative order.
\* (The claim asks for all of them in the store; this is what is left of it
\* when a write may fail.)
C1_QueuedEventsReachStore ==
    \A i \in Inits :
        (initPc[i] = "resolved" /\ NoClear)
            => /\ Range(snapshot[i]) \subseteq (StoreEvents \cup Range(eventQueue))
               /\ Restrict(StoreData, Range(snapshot[i]))
                      = Restrict(snapshot[i], StoreEvents)

\* C2: after a drain in which a write failed (and without any clearDatabase()
\* call), the events of that drain that are not in the store (the failed one
\* and those behind it) are all in the queue, in their original order.
C2_FailedDrainKeepsRest ==
    \A i \in Inits :
        (initPc[i] = "resolved" /\ drainFailed[i] /\ NoClear)
            => Restrict(eventQueue, Range(snapshot[i]) \ StoreEvents)
                   = Restrict(snapshot[i], Range(snapshot[i]) \ StoreEvents)

\* C3: every event accepted by saveEvent is in the store, in the queue or in
\* flight (a pending write or the drain's copy), unless it was evicted by the
\* queue bound, discarded by clearDatabase() or destroyed with the store.
C3_NoOtherLoss ==
    Accepted \subseteq
        (StoreEvents \cup Range(eventQueue) \cup InFlight
            \cup evicted \cup discarded \cup destroyed)

\* C4: an event whose direct write failed while Ready is eventually written
\* to the store, unless clearDatabase() is called.
C4_FailedWriteRetried ==
    \A e \in Events :
        (e \in failedDirect) ~> (e \in StoreEvents \/ ~NoClear)

\* C5: the queue never holds more than maxQueueSize events.
C5_QueueBounded == Len(eventQueue) <= maxQueueSize

\* the events emitted so far that the queue bound keeps
LastEmitted(n) == SliceLast(Interval(1, n), maxQueueSize)

\* the first part of C6: as long as the manager has never been Ready (and
\* nothing was cleared), the queue is exactly the last maxQueueSize events
\* emitted, in emission order
C6_QueueKeepsLast ==
    (NeverReady /\ NoClear) => eventQueue = LastEmitted(emitted)

\* the drain of initialize() number i has finished, it started with at least
\* maxQueueSize events emitted, and no event was emitted and nothing cleared
\* since
C6_Case(i) ==
    /\ initPc[i] = "resolved"
    /\ NoClear
    /\ emittedAtReady[i] >= maxQueueSize
    /\ emitted = emittedAtReady[i]

C6_NoFailure(i) == ~deleteFailed[i] /\ ~drainFailed[i]

C7_StoreInEmissionOrder ==
    (failures = 0 /\ NoClear) =>
        \A k, l \in 1..Len(records) :
            (k < l /\ records[k].data \in Events /\ records[l].data \in Events)
                => records[k].data < records[l].data

\* the events written directly by saveEvent while Ready, whose write did not
\* fail
DirectOk == direct \ failedDirect

\* C8: of two events written directly by saveEvent while Ready (no write
\* failure), the one passed to saveEvent first has the smaller id in the store.
C8_ReadyWritesInCallOrder ==
    \A k, l \in 1..Len(records) :
        (/\ records[k].data \in DirectOk
         /\ records[l].data \in DirectOk
         /\ records[k].data < records[l].data)
            => records[k].id < records[l].id

\* C8 happens: two directly written events are in the store
C8_Witness ==
    \E k, l \in 1..Len(records) :
        /\ records[k].data \in DirectOk
        /\ records[l].data \in DirectOk
        /\ records[k].data < records[l].data

\* C9: an initialize() call made while Ready or Initializing returns at once
\* and changes neither the manager's fields nor anything in IndexedDB (no
\* delete or open request, no connection closed).
C9_InitializeNoop ==
    [][\A i \in Inits :
          (initPc[i] = "idle" /\ initPc'[i] # "idle" /\ (isReady \/ isInitializing))
              => (initPc'[i] = "returned" /\ UNCHANGED <<mgr, idb>>)]_vars

\* C9 happens: a call has returned at once while another one has started
C9_Witness ==
    \E i, j \in Inits :
        /\ initPc[i] = "returned"
        /\ initPc[j] \in {"awaitDelete", "awaitOpen", "drain", "resolved"}

\* C10: when an initialize() call returns successfully, no initialization is
\* in flight and the manager is Ready.
C10_ReturnsWhenSettled ==
    [][\A i \in Inits :
          (initPc[i] \notin {"returned", "resolved"}
              /\ initPc'[i] \in {"returned", "resolved"})
              => (isReady' /\ ~isInitializing')]_vars

\* the initialize() calls that are between their start and the answer to
\* their open request: a destroy-then-open sequence in flight
InFlightInits == {i \in Inits : initPc[i] \in {"awaitDelete", "awaitOpen"}}

\* C11: at any moment at most one destroy-then-open initialization sequence
\* is in flight, whatever the interleaving of initialize() and clearDatabase().
C11_OneInitInFlight == Cardinality(InFlightInits) <= 1

\* the lifecycle state that the two flags show; Uninitialized and Failed are
\* both "Idle" (neither Ready nor Initializing)
Phase(ready, initializing) ==
    IF ready THEN "Ready" ELSE IF initializing THEN "Initializing" ELSE "Idle"

LifecycleSteps ==
    { <<"Idle", "Initializing">>,       \* initialize, first call or retry
      <<"Initializing", "Ready">>,
      <<"Initializing", "Idle">>,       \* Failed
      <<"Ready", "Idle">> }             \* clear

\* C12: every change of the lifecycle state is one of Uninitialized/Failed ->
\* Initializing, Initializing -> Ready, Initializing -> Failed and Ready ->
\* Uninitialized; in particular the manager becomes Ready only from
\* Initializing.
C12_LifecycleSteps ==
    [][Phase(isReady', isInitializing') # Phase(isReady, isInitializing)
          => <<Phase(isReady, isInitializing), Phase(isReady', isInitializing')>>
                 \in LifecycleSteps]_vars

\* C13: when its open request fails, initialize() rejects and leaves the
\* manager neither Ready nor Initializing; and (clearDatabase() not being
\* called) an initialize() call made after all earlier calls have failed is
\* not a no-op: it starts a fresh destroy-then-open attempt.
C13_FailedInitCanRetry ==
    [][/\ \A i \in Inits :
             (initPc[i] = "awaitOpen" /\ initPc'[i] = "rejected")
                 => (~isReady' /\ ~isInitializing')
       /\ \A j \in Inits :
             (/\ initPc[j] = "idle" /\ initPc'[j] # "idle"
              /\ j > 1
              /\ NoClear
              /\ \A k \in 1..(j - 1) : initPc[k] = "rejected")
                 => /\ initPc'[j] = "awaitDelete"
                    /\ isInitializing'
                    /\ connQueue' = Append(connQueue, DeleteRequest(InitOwner(j)))]_vars

\* C13 happens: an initialize() failed on its open request and a later one
\* has reached Ready
C13_Witness ==
    \E i, j \in Inits :
        i < j /\ initPc[i] = "rejected" /\ ReachedReady(j)

\* the task that made the request `owner` is still awaiting deleteDatabase()
AwaitsDelete(owner, ipc, cpc) ==
    IF owner.t = "init" THEN ipc[owner.n] = "awaitDelete"
                        ELSE cpc[owner.n] = "awaitDelete"

C15_ReadyOnEmptyStore ==
    [][\A i \in Inits :
          (initPc[i] = "awaitOpen" /\ ReachedReady(i)')
              => 0 \notin Range([k \in 1..Len(records') |-> records'[k].data])]_vars

\* the destroy step of clearDatabase() number c is pending: its delete
\* request has not been completed by IndexedDB
DestroyPending(c) ==
    \E k \in 1..Len(connQueue) :
        connQueue[k].kind = "delete" /\ connQueue[k].owner = ClearOwner(c)

\* C16: clearDatabase() takes effect in the step in which it is called (not
\* Ready, not Initializing, db null, queue empty, the destroy still pending),
\* and every saveEvent issued while that destroy is pending is queued and
\* writes nothing.
C16_ClearIsSynchronous ==
    [][\A c \in Clears :
          /\ (clearPc[c] = "idle" /\ clearPc'[c] # "idle")
                => /\ ~isReady' /\ ~isInitializing'
                   /\ db' = 0
                   /\ eventQueue' = <<>>
                   /\ DestroyPending(c)'
          /\ (DestroyPending(c) /\ emitted' # emitted)
                => /\ emitted' \in Range(eventQueue')
                   /\ txq' = txq]_vars

\* the number of initialize() calls made so far
InitCalls == Cardinality({i \in Inits : initPc[i] # "idle"})

\* C17: after a clearDatabase() the manager does not become Ready unless
\* initialize() has been called after that clear.
C17_ClearDoesNotReinitialize ==
    [][\A c \in Clears :
          (clearPc[c] # "idle" /\ ~isReady /\ isReady')
              => InitCalls > callsAtClear[c].inits]_vars

\* C18: an event passed to saveEvent after a clearDatabase() is not written
\* into the store that this clear destroys: no record of it is added while
\* the delete request of the clear is pending.
C18_NoWriteIntoDestroyedStore ==
    [][\A c \in Clears :
          (DestroyPending(c) /\ Len(records') > Len(records))
              => records'[Len(records')].data <= callsAtClear[c].events]_vars

\* C19: a saveEvent call made while the manager is not Ready (before any
\* initialize(), during one, or after one has failed) puts the event at the
\* end of the queue, creates no transaction, writes nothing to the store and
\* completes at once.
C19_NotReadyQueues ==
    [][(emitted' # emitted /\ ~isReady)
          => /\ eventQueue' # <<>>
             /\ eventQueue'[Len(eventQueue')] = emitted'
             /\ txq' = txq
             /\ records' = records
             /\ emitted' \notin direct'
             /\ savePc'[emitted'] = "done"]_vars

\* C19 happens: after an initialize() has failed, the manager is not Ready and
\* holds a connection, and the last event passed to saveEvent was queued
C19_Witness ==
    /\ \E i \in Inits : initPc[i] = "rejected"
    /\ ~isReady
    /\ db # 0
    /\ emitted \notin direct
    /\ eventQueue # <<>>
    /\ eventQueue[Len(eventQueue)] = emitted

\* C20: no saveEvent call ever ends in an exception or a rejection, whatever
\* the lifecycle state at the call and whatever the answer of IndexedDB: a
\* call is pending on its write or has completed normally, and a call whose
\* write failed has completed normally.
C20_SaveEventNeverRejects ==
    \A e \in Events :
        /\ savePc[e] \in {"none", "writing", "done"}
        /\ e \in failedDirect => savePc[e] = "done"

\* C20 happens: saveEvent calls have completed after a failed write, after
\* being queued and after a successful write
C20_Witness ==
    /\ \E e \in failedDirect : savePc[e] = "done"
    /\ \E e \in Events \ direct : savePc[e] = "done"
    /\ \E e \in DirectOk : savePc[e] = "done"

\* C21: the ids of the records in the store are strictly increasing in
\* insertion order (so they are unique), store.getAll() returns the records
\* in that order, and in a store that holds no record of an earlier page load
\* the records have the ids 1, 2, 3, ... in the order in which they were
\* written.
C21_IdsIncrease ==
    /\ \A k, l \in 1..Len(records) : k < l => records[k].id < records[l].id
    /\ StoreGetAll(records) = records
    /\ (0 \notin StoreEvents) => \A k \in 1..Len(records) : records[k].id = k

\* C21 happens: three events were written to a fresh store
C21_Witness ==
    /\ Len(records) = 3
    /\ 0 \notin StoreEvents
    /\ <<records[1].id, records[2].id, records[3].id>> = <<1, 2, 3>>

Queries == {"getAllEvents", "getEventsBySession", "getAllSessions"}

\* C22: a call of getAllEvents, getEventsBySession or getAllSessions made
\* while the manager is not Ready or holds no handle throws 'Database not
\* ready', returns no record and changes nothing in the manager, the
\* database or the page.
C22_QueriesRefuseWhenNotReady ==
    [][(result = NoResult /\ result'.op \in Queries /\ (~isReady \/ db = 0))
          => /\ result'.status = "thrown"
             /\ result'.value = <<>>
             /\ UNCHANGED <<mgr, session, idb, tasks, hist, alerts, downloads>>]_vars

\* C22 happens: a query has thrown while the store held records and the
\* manager held a handle without being Ready
C22_Witness ==
    /\ result.op \in Queries
    /\ result.status = "thrown"
    /\ records # <<>>
    /\ db # 0

\* C23: what getEventsBySession(id) returns is what getAllEvents() returns
\* for the same store, restricted to the records whose sessionId is id, in
\* the same order.
C23_BySessionIsSubsetOfAll ==
    (result.op = "getEventsBySession" /\ result.status = "ok")
        => result.value =
               SelectSeq(StoreGetAll(records), LAMBDA r : r.sessionId = result.arg)

\* C23 happens: the query returned two records of a store in which a record
\* of another session lies between them
C23_Witness ==
    /\ result.op = "getEventsBySession"
    /\ result.status = "ok"
    /\ Len(result.value) = 2
    /\ Len(records) = 3
    /\ records[2].sessionId # result.arg

\* the smallest id of a record of session sid
FirstId(sid) ==
    CHOOSE n \in {r.id : r \in Range(records)} :
        /\ RecordOf(records, n).sessionId = sid
        /\ \A r \in Range(records) : r.sessionId = sid => n <= r.id

\* C24: getAllSessions() returns the session ids that occur in the store,
\* each exactly once, ordered by the id of their first record.
C24_SessionsOnceInFirstAppearanceOrder ==
    (result.op = "getAllSessions" /\ result.status = "ok")
        => /\ Range(result.value) = {r.sessionId : r \in Range(records)}
           /\ \A a, b \in 1..Len(result.value) :
                 a < b => /\ result.value[a] # result.value[b]
                          /\ FirstId(result.value[a]) < FirstId(result.value[b])

\* C24 happens: the sessions of a store in which the records of one session
\* lie around a record of another one were listed
C24_Witness ==
    /\ result.op = "getAllSessions"
    /\ result.status = "ok"
    /\ Len(records) = 3
    /\ records[1].sessionId = records[3].sessionId
    /\ records[1].sessionId # records[2].sessionId
    /\ Len(result.value) = 2

\* the captured events stored for session sid, in storage (id) order
StoredEventsOf(sid) ==
    LET mine == SelectSeq(records, LAMBDA r : r.sessionId = sid)
    IN [k \in 1..Len(mine) |-> mine[k].data]

\* the round trip of C25 alone: when exportSession(id) produces a file, it
\* produces one, and the text of the file parses to the sequence of the
\* captured events stored for that session, in storage order, without the id,
\* sessionId and timestamp of the records.
C25_ExportRoundTrip ==
    (result.op = "exportSession" /\ downloads # <<>>)
        => /\ Len(downloads) = 1
           /\ JSONParse(downloads[1].text) = StoredEventsOf(result.arg)

\* the events of s in capture order (events are numbered in that order)
InCaptureOrder(s) == SortSeq(s, LAMBDA a, b : a < b)

\* C25: whenever the manager is Ready (and no write has failed and nothing
\* was cleared), the file that exportSession(id) makes of the store parses
\* to the captured events stored for that session, in capture order.
C25_ExportInCaptureOrder ==
    (~DatabaseNotReady /\ failures = 0 /\ NoClear)
        => \A sid \in {r.sessionId : r \in Range(records)} :
               JSONParse(Artifact(sid, IndexGetAll(records, sid)).text)
                   = InCaptureOrder(StoredEventsOf(sid))

C27_ExportOfMissingSession ==
    [][(/\ result = NoResult
        /\ result'.op = "exportSession"
        /\ \A r \in Range(records) : r.sessionId # result'.arg)
          => /\ downloads' = downloads
             /\ Len(alerts') = Len(alerts) + 1
             /\ result'.status = "ok"
             /\ UNCHANGED <<mgr, session, idb, tasks, hist>>]_vars

\* C27 happens: a Ready manager was asked to export a session of which the
\* store, not empty, holds nothing
C27_Witness ==
    /\ result.op = "exportSession"
    /\ isReady
    /\ records # <<>>
    /\ \A r \in Range(records) : r.sessionId # result.arg
    /\ alerts = <<"No events found for this session">>
    /\ downloads = <<>>

\* C28: a clearDatabase() called while the manager is not Ready shows the
\* user a notification.
C28_ClearWhenNotReadyNotifies ==
    [][\A c \in Clears :
          (clearPc[c] = "idle" /\ clearPc'[c] # "idle" /\ ~isReady)
              => alerts' # alerts]_vars

\* C29: every connection to 'rrweb' that the manager was ever handed is its
\* current db or has had close() called on it, so at most one of them is in
\* use.
C29_OneHandle == opened \subseteq (closeReq \cup {db})

\* C30: every call of getInstance() returns the same manager, the one held
\* in RRWebDBManager.instance.
C30_OneInstance ==
    \A k \in 1..Len(handedOut) : handedOut[k] = handedOut[1] /\ instance = handedOut[1]

\* C30 happens: getInstance() has returned twice, the manager not yet
\* initialized
C30_Witness ==
    /\ Len(handedOut) >= 2
    /\ db = 0
    /\ instance = 1

\* a write transaction is issued in this step: the newest transaction was not
\* pending before
Issued == txq' # <<>> /\ txq'[Len(txq')] \notin Range(txq)

\* C31: as long as the tab storage keeps the session id, no step changes it
\* or generates another one; a write issued while an id is persisted carries
\* that id, a write issued while none is persisted carries a newly generated
\* id, which is persisted in the same step; and until a second id has been
\* generated all records of this page load carry the same session id.
C31_SessionIdStable ==
    [][/\ (sessionStorage # 0 /\ sessionStorage' # 0)
             => (sessionStorage' = sessionStorage /\ sessionGen' = sessionGen)
       /\ Issued
             => /\ txq'[Len(txq')].sessionId =
                       (IF sessionStorage # 0 THEN sessionStorage ELSE sessionGen + 1)
                /\ sessionStorage' = txq'[Len(txq')].sessionId
       /\ sessionGen' <= 1
             => \A k \in 1..Len(records') :
                    records'[k].data \in Events => records'[k].sessionId = 1]_vars

\* C31 happens: three events were written one after the other and the first
\* write generated the id that all three carry
C31_Witness ==
    /\ sessionGen = 1
    /\ sessionStorage = 1
    /\ Len(records) >= 3
    /\ \A k \in 1..Len(records) : records[k].data \in Events => records[k].sessionId = 1
    /\ sessionAtSave[1] = 0

\* the read-only operations of the manager
ReadOnlyOps == Queries \cup {"exportSession", "exportAllSessions"}

\* C32: a call of getAllEvents, getEventsBySession, getAllSessions,
\* exportSession or exportAllSessions, in whatever state and whether it
\* succeeds or fails, leaves the store contents, the ingress queue and the
\* lifecycle flags (with the handle and the pending requests) as they were.
C32_ReadsChangeNothing ==
    [][(result = NoResult /\ result' # NoResult /\ result'.op \in ReadOnlyOps)
           => /\ records' = records
              /\ keyGen' = keyGen
              /\ eventQueue' = eventQueue
              /\ isReady' = isReady
              /\ isInitializing' = isInitializing
              /\ db' = db
              /\ txq' = txq
              /\ connQueue' = connQueue]_vars

\* C32 happens: an export of all sessions produced its artifacts from a store
\* that still holds its records
C32_Witness ==
    /\ result # NoResult
    /\ result.op = "exportAllSessions"
    /\ Len(downloads) >= 2
    /\ Len(records) >= 2
    /\ isReady

\* C33: exportRRWebSession() called without argument while the manager is
\* Ready and the tab has a current session id with events in the store
\* produces one artifact, holding the events of that session.
C33_NoArgumentExportsCurrent ==
    [][(/\ result = NoResult
        /\ result' # NoResult
        /\ result'.op = "exportRRWebSession"
        /\ result'.arg = <<>>
        /\ result'.status # "caught"
        /\ isReady
        /\ db # 0
        /\ sessionStorage # 0
        /\ IndexGetAll(records, sessionStorage) # <<>>)
           => downloads' = Append(downloads,
                                  Artifact(sessionStorage,
                                           IndexGetAll(records, sessionStorage)))]_vars

\* C34: in no reachable state are isReady and isInitializing both true.
C34_ReadyExcludesInitializing == ~(isReady /\ isInitializing)

\* C34 happens: an initialize() made the manager Ready while another one,
\* started after a clearDatabase(), is still awaiting its destroy or open
C34_Witness ==
    /\ isReady
    /\ ~isInitializing
    /\ \E i, j \in Inits :
          /\ initPc[i] \in {"drain", "resolved"}
          /\ initPc[j] \in {"awaitDelete", "awaitOpen"}

\* a clearDatabase() is called in this step
ClearCalled == \E c \in Clears : clearPc[c] = "idle" /\ clearPc'[c] # "idle"

\* C35: a manager that is Ready stays Ready in every step that is not a call
\* of clearDatabase(): a failed direct write, a failed drain and the settling
\* of another initialize() leave it Ready.
C35_ReadyUntilClear ==
    [][(isReady /\ ~ClearCalled) => isReady']_vars

\* C36: once clearDatabase() has been called, the ingress queue holds no
\* event that was passed to saveEvent before that call, also when a drain
\* was in flight at the call and resumes afterwards.
C36_QueueForgetsOlderEvents ==
    \A c \in Clears :
        clearPc[c] # "idle" =>
            \A e \in Range(eventQueue) : e > callsAtClear[c].events

\* C37: no step of an initialize() before its drain (its start, the settling
\* of its destroy, the failure of its open with the catch) changes the
\* ingress queue, and an event passed to saveEvent after an initialize() has
\* failed, while the manager is not Ready, goes behind the events that are
\* queued, which keep their order (all of them while the queue has room).
C37_FailedInitKeepsQueue ==
    [][/\ \A i \in Inits :
              (initPc'[i] # initPc[i]
                  /\ initPc'[i] \in {"awaitDelete", "awaitOpen", "rejected"})
                 => eventQueue' = eventQueue
       /\ ((\E i \in Inits : initPc[i] = "rejected")
              /\ ~isReady /\ emitted' = emitted + 1)
             => /\ eventQueue' # <<>>
                /\ eventQueue'[Len(eventQueue')] = emitted'
                /\ IF Len(eventQueue) < maxQueueSize
                   THEN eventQueue' = Append(eventQueue, emitted')
                   ELSE eventQueue' = Append(Tail(eventQueue), emitted')]_vars

\* C37 happens: an event was queued, an initialize() failed at its open, and
\* an event that arrived afterwards is queued behind the first
C37_Witness ==
    /\ \E i \in Inits : initPc[i] = "rejected"
    /\ \A i \in Inits : initPc[i] \in {"idle", "rejected"}
    /\ ~isReady
    /\ eventQueue = <<1, 2>>
    /\ \A c \in Clears : clearPc[c] = "idle"

\* C38: when a write of the drain of an initialize() fails, that
\* initialize() resolves, the lifecycle flags stay as they are (a Ready
\* manager remains Ready) and the failed event is the last of the queue.
C38_DrainFailureResolves ==
    [][\A i \in Inits :
           (drainFailed'[i] /\ ~drainFailed[i])
              => /\ initPc[i] = "drain"
                 /\ initPc'[i] = "resolved"
                 /\ isReady' = isReady
                 /\ isInitializing' = isInitializing
                 /\ eventQueue' # <<>>
                 /\ eventQueue'[Len(eventQueue')] =
                        (IF failures' # failures
                         THEN Head(toProcess[i])
                         ELSE Head(Tail(toProcess[i])))]_vars

\* C38 happens: the write of the first queued event failed during the
\* drain, initialize() resolved, the manager is Ready and the event is queued
C38_Witness ==
    \E i \in Inits :
        /\ drainFailed[i]
        /\ initPc[i] = "resolved"
        /\ isReady
        /\ failures = 1
        /\ eventQueue = <<1>>
        /\ records = <<>>
        /\ \A c \in Clears : clearPc[c] = "idle"

\* C39: a write that is issued carries the session id that the tab storage
\* holds once the write is issued, and the record that a write adds to the
\* store carries the id of that write; so an event that was queued under one
\* id and is drained after the storage has changed is stored under the id of
\* the time of the drain.
C39_SessionIdAtWrite ==
    [][/\ Issued
             => /\ sessionStorage' # 0
                /\ txq'[Len(txq')].sessionId = sessionStorage'
       /\ Len(records') = Len(records) + 1
             => /\ txq # <<>>
                /\ records'[Len(records')].data = Head(txq).ev
                /\ records'[Len(records')].sessionId = Head(txq).sessionId]_vars

\* C39 happens: an event was passed to saveEvent while the tab held one
\* session id and is stored under another one
C39_Witness ==
    \E k \in 1..Len(records) :
        /\ records[k].data \in Events
        /\ sessionAtSave[records[k].data] # 0
        /\ records[k].sessionId # sessionAtSave[records[k].data]

====
